---- MODULE Spec2Model ----
(***************************************************************************)
(* A model of the animation timeline engine of asciimatics:                *)
(*   - Scene  (asciimatics/scene.py): effect list, duration, reverse       *)
(*     z-order event dispatch, reset/exit lifecycle;                       *)
(*   - Path   (asciimatics/paths.py): recorded steps and their playback;   *)
(*   - DynamicPath (asciimatics/paths.py): a position set by events;       *)
(*   - Typewriter (asciimatics/renderers/typewriter.py): the renderer that *)
(*     reveals its source glyph by glyph;                                  *)
(*   - _BasePicker (asciimatics/widgets/basepicker.py): the widget that    *)
(*     opens a popup effect in its Scene.                                  *)
(* Each object has its own specifications over the variables of this       *)
(* module: SceneSpec, ReentrantSpec and ConstructSpec for the Scene;       *)
(* PathSpec (recording and playback), DriverSpec (playback by a driver     *)
(* that asks is_finished first), BuilderSpec (the interpolating builders)  *)
(* and MixedSpec (all builders during playback) for the Path;              *)
(* DynamicSpec, TypewriterSpec, and PickerSpec (a picker and its Scene).   *)
(***************************************************************************)
EXTENDS Integers, Sequences, FiniteSets, TLC

VARIABLES
    \* ---- Scene (scene.py) ----
    effects,        \* self._effects: the ordered effect list (1 = bottommost)
    duration,       \* self._duration
    pc,             \* "idle", or "dispatch" while process_event is in its loop
    it_index,       \* position of the reversed() list iterator (0-based, as CPython)
    event,          \* the local variable `event` of process_event
    op,             \* the operation called last on the Scene (or on its picker)
    arg,            \* its argument
    result,         \* its return value ("None", an event, or the exception raised)
    calls,          \* the calls it made on effects: <<method, effect, argument, returned>>
    snapshot,       \* the effect list when the current/last process_event began
    \* ---- Path (paths.py) ----
    steps,          \* self._steps
    index,          \* self._index (the cursor)
    rec_x,          \* self._rec_x
    rec_y,          \* self._rec_y
    path_op,        \* the Path operation called last
    path_arg,       \* the arguments of the builder operation called last
    path_result,    \* what it returned: [exc |-> "none" | "IndexError", val |-> ...]
    played,         \* the results of the next_pos() calls since the last reset()
    dirty,          \* a builder operation ran after playback began (since the last reset)
    first_play,     \* the results of the next_pos() calls before the first reset() call
    replays,        \* whether reset() has been called since construction
    modified,       \* a builder operation ran after the first next_pos() call
    \* ---- DynamicPath (paths.py) ----
    dyn_x,          \* self._x
    dyn_y,          \* self._y
    dyn_start_x,    \* self._start_x
    dyn_start_y,    \* self._start_y
    dyn_op,         \* the DynamicPath operation called last
    dyn_result,     \* what it returned: [pos, fin, ev]
    dyn_prev,       \* (self._x, self._y) as the last call found them
    \* ---- Typewriter (renderers/typewriter.py) ----
    tw_text,        \* self._source.rendered_text[0]: the rows of glyphs
    tw_count,       \* self._count
    tw_op,          \* the Typewriter operation called last
    tw_written,     \* the _write calls of the last _render_now:
                    \* <<char, x, y, fg, attr, bg>>
    tw_renders,     \* the number of _render_now calls since the last reset()
    \* ---- _BasePicker (widgets/basepicker.py) ----
    picker_child,   \* self._child
    picker_event,   \* the event process_event was called with last
    picker_result   \* what it returned

sceneVars == <<effects, duration, pc, it_index, event, op, arg, result, calls, snapshot>>
pathVars == <<steps, index, rec_x, rec_y, path_op, path_arg, path_result, played,
              dirty, first_play, replays, modified>>
dynVars == <<dyn_x, dyn_y, dyn_start_x, dyn_start_y, dyn_op, dyn_result, dyn_prev>>
typewriterVars == <<tw_text, tw_count, tw_op, tw_written, tw_renders>>
pickerVars == <<picker_child, picker_event, picker_result>>
vars == <<sceneVars, pathVars, dynVars, typewriterVars, pickerVars>>
nonSceneVars == <<pathVars, dynVars, typewriterVars, pickerVars>>
nonPathVars == <<sceneVars, dynVars, typewriterVars, pickerVars>>

(***************************************************************************)
(* Bounds of the model.                                                    *)
(***************************************************************************)
MaxEffects == 3      \* longest effect list explored
MaxInitEffects == 2  \* longest effect list handed to the constructor
MaxOldEffects == 2   \* longest effect list of an old_scene handed to reset
MaxMutations == 2    \* add_effect/remove_effect calls one handler makes
MaxPathLen == 2      \* longest recorded path explored
MaxCoord == 1        \* coordinates range over 0..MaxCoord
MaxDelay == 2        \* longest wait()
MaxCalls == 3        \* next_pos() calls explored per playback
MaxWaypoints == 3    \* longest waypoint list handed to move_round_to
MaxRoundSteps == 5   \* largest step count handed to move_round_to
MaxRows == 2         \* rows of the Typewriter's source block
MaxRowLen == 2       \* glyphs in one row of it
MaxRenders == 5      \* _render_now calls followed after one reset()

(***************************************************************************)
(* Helpers on sequences.                                                   *)
(***************************************************************************)
RECURSIVE SeqsUpTo(_, _)
SeqsUpTo(S, n) ==
    IF n = 0 THEN {<<>>}
    ELSE LET shorter == SeqsUpTo(S, n - 1)
         IN  shorter \cup {Append(s, x) : s \in {t \in shorter : Len(t) = n - 1}, x \in S}

Count(x, s) == Cardinality({i \in 1..Len(s) : s[i] = x})

Reverse(s) == [i \in 1..Len(s) |-> s[Len(s) + 1 - i]]

IsPrefix(s, t) == Len(s) <= Len(t) /\ \A i \in 1..Len(s) : s[i] = t[i]

SetMax(S) == CHOOSE m \in S : \A x \in S : x <= m

(***************************************************************************)
(* The Effect interface that Scene consumes: three effect objects; clone   *)
(* and save are optional attributes, probed with hasattr().                *)
(***************************************************************************)
Effects == {"a", "b", "c"}
CloneCap == {"a", "c"}      \* the effects that expose clone
SaveCap == {"b", "c"}       \* the effects that expose save
stop_frame(e) == CASE e = "a" -> -1 [] e = "b" -> 10 [] OTHER -> 25

None == "None"
Events == {"key", "mouse"}
Durations == {0, -1, 7}


NoArg == [e |-> "", reset |-> FALSE, ev |-> None, has_old |-> FALSE, old |-> <<>>,
          duration |-> 0]

(***************************************************************************)
(* Scene.add_effect and Scene.remove_effect, as functions of the part of   *)
(* the Scene they touch: s = [effects, calls].                             *)
(***************************************************************************)
\* an add_effect that resets the effect whatever its reset argument says
add_effect_resets(s, effect, reset) ==
    [effects |-> Append(s.effects, effect),
     calls   |-> s.calls \o <<<<"reset", effect, None, None>>,
                              <<"register_scene", effect, "self", None>>>>]

add_effect(s, effect, reset) ==
    [effects |-> Append(s.effects, effect),
     calls   |-> (IF reset THEN Append(s.calls, <<"reset", effect, None, None>>)
                  ELSE s.calls) \o <<<<"register_scene", effect, "self", None>>>>]

\* a remove that drops the last entry equal to x
list_remove_last(list, x) ==
    LET i == CHOOSE k \in 1..Len(list) :
                 list[k] = x /\ \A j \in (k + 1)..Len(list) : list[j] # x
    IN  SubSeq(list, 1, i - 1) \o SubSeq(list, i + 1, Len(list))

\* list.remove(x): drops the first entry equal to x (ValueError when there is none)
list_remove(list, x) ==
    LET i == CHOOSE k \in 1..Len(list) : list[k] = x /\ \A j \in 1..(k - 1) : list[j] # x
    IN  SubSeq(list, 1, i - 1) \o SubSeq(list, i + 1, Len(list))

remove_effect(s, effect) ==
    [s EXCEPT !.effects = list_remove(s.effects, effect)]

(***************************************************************************)
(* Scene.__init__(effects, duration): registers each effect without a      *)
(* reset, then derives the duration when it was given as 0.                *)
(***************************************************************************)
RECURSIVE add_all(_, _)
add_all(s, effs) ==
    IF effs = <<>> THEN s
    ELSE add_all(add_effect(s, Head(effs), FALSE), Tail(effs))

derived_duration(effs, d) ==
    IF d = 0 THEN SetMax({stop_frame(effs[i]) : i \in 1..Len(effs)}) ELSE d

\* a constructor that takes 0 as the duration of a Scene without effects
Scene__init__lenient(effs, d) ==
    LET s == add_all([effects |-> <<>>, calls |-> <<>>], effs)
    IN  [exc |-> "none", effects |-> s.effects, calls |-> s.calls,
         duration |-> IF effs = <<>> THEN d ELSE derived_duration(effs, d)]

Scene__init__(effs, d) ==
    LET s == add_all([effects |-> <<>>, calls |-> <<>>], effs)
    IN  IF d = 0 /\ effs = <<>>
        THEN [exc |-> "ValueError", effects |-> s.effects, calls |-> s.calls,
              duration |-> d]
        ELSE [exc |-> "none", effects |-> s.effects, calls |-> s.calls,
              duration |-> derived_duration(effs, d)]

(***************************************************************************)
(* What an effect's process_event handler may do to the owning Scene       *)
(* before it returns: up to n add_effect/remove_effect calls (a picker     *)
(* adds its popup, a dialog removes itself or another effect).             *)
(***************************************************************************)
RECURSIVE HandlerOutcomes(_, _)
HandlerOutcomes(s, n) ==
    IF n = 0 THEN {s}
    ELSE {s}
         \cup UNION {HandlerOutcomes(add_effect(s, e, TRUE), n - 1) :
                        e \in {x \in Effects : Len(s.effects) < MaxEffects}}
         \cup UNION {HandlerOutcomes(remove_effect(s, e), n - 1) :
                        e \in {s.effects[i] : i \in 1..Len(s.effects)}}

(***************************************************************************)
(* The calls Scene.reset and Scene.exit make on effects.                   *)
(***************************************************************************)
\* a reset that calls clone on every old effect, without probing for it
reset_calls_unprobed(effs, has_old, old) ==
    [i \in 1..Len(effs) |-> <<"reset", effs[i], None, None>>]
    \o (IF has_old
        THEN [i \in 1..Len(old) |-> <<"clone", old[i], "screen,self", None>>]
        ELSE <<>>)

\* a reset that clones the old scene's effects before it resets its own
reset_calls_clones_first(effs, has_old, old) ==
    (IF has_old
     THEN LET cloners == SelectSeq(old, LAMBDA e : e \in CloneCap)
          IN  [i \in 1..Len(cloners) |-> <<"clone", cloners[i], "screen,self", None>>]
     ELSE <<>>)
    \o [i \in 1..Len(effs) |-> <<"reset", effs[i], None, None>>]

reset_calls(effs, has_old, old) ==
    [i \in 1..Len(effs) |-> <<"reset", effs[i], None, None>>]
    \o (IF has_old
        THEN LET cloners == SelectSeq(old, LAMBDA e : e \in CloneCap)
             IN  [i \in 1..Len(cloners) |-> <<"clone", cloners[i], "screen,self", None>>]
        ELSE <<>>)

\* an exit that calls save on every effect, without probing for it
exit_calls_unprobed(effs) ==
    [i \in 1..Len(effs) |-> <<"save", effs[i], None, None>>]

exit_calls(effs) ==
    LET savers == SelectSeq(effs, LAMBDA e : e \in SaveCap)
    IN  [i \in 1..Len(savers) |-> <<"save", savers[i], None, None>>]

(***************************************************************************)
(* Scene: initial state and operations.                                    *)
(***************************************************************************)
SceneInit ==
    \E effs \in SeqsUpTo(Effects, MaxInitEffects), d \in Durations :
        LET c == Scene__init__(effs, d)
        IN  /\ c.exc = "none"
            /\ effects = c.effects
            /\ duration = c.duration
            /\ calls = c.calls
            /\ pc = "idle"
            /\ it_index = -1
            /\ event = None
            /\ op = "__init__"
            /\ arg = [NoArg EXCEPT !.old = effs, !.duration = d]
            /\ result = None
            /\ snapshot = <<>>

\* The constructor call itself: NewScene is the moment of the call, with its
\* arguments in arg; Construct runs __init__, which either leaves a Scene
\* (pc = "idle") or raises (pc = "raised": there is no object to operate on).
NewScene ==
    \E effs \in SeqsUpTo(Effects, MaxInitEffects), d \in Durations :
        /\ effects = <<>>
        /\ duration = d
        /\ calls = <<>>
        /\ pc = "new"
        /\ it_index = -1
        /\ event = None
        /\ op = "__init__"
        /\ arg = [NoArg EXCEPT !.old = effs, !.duration = d]
        /\ result = None
        /\ snapshot = <<>>

Construct ==
    /\ pc = "new"
    /\ \E c \in {Scene__init__(arg.old, arg.duration)} :
           /\ effects' = c.effects
           /\ duration' = c.duration
           /\ calls' = c.calls
           /\ pc' = IF c.exc = "none" THEN "idle" ELSE "raised"
           /\ result' = IF c.exc = "none" THEN None ELSE c.exc
    /\ UNCHANGED <<it_index, event, op, arg, snapshot, nonSceneVars>>

\* an add_effect that derives the duration again from the new effect list
AddEffect_rederives(effect, reset) ==
    /\ pc = "idle"
    /\ Len(effects) < MaxEffects
    /\ LET s == add_effect([effects |-> effects, calls |-> <<>>], effect, reset)
       IN  /\ effects' = s.effects
           /\ calls' = s.calls
           /\ duration' = derived_duration(s.effects, 0)
    /\ op' = "add_effect"
    /\ arg' = [NoArg EXCEPT !.e = effect, !.reset = reset]
    /\ result' = None
    /\ snapshot' = <<>>
    /\ UNCHANGED <<pc, it_index, event, nonSceneVars>>

AddEffect(effect, reset) ==
    /\ pc = "idle"
    /\ Len(effects) < MaxEffects
    /\ LET s == add_effect([effects |-> effects, calls |-> <<>>], effect, reset)
       IN  /\ effects' = s.effects
           /\ calls' = s.calls
    /\ op' = "add_effect"
    /\ arg' = [NoArg EXCEPT !.e = effect, !.reset = reset]
    /\ result' = None
    /\ snapshot' = <<>>
    /\ UNCHANGED <<duration, pc, it_index, event, nonSceneVars>>

RemoveEffect(effect) ==
    /\ pc = "idle"
    /\ IF \E i \in 1..Len(effects) : effects[i] = effect
       THEN /\ effects' = remove_effect([effects |-> effects, calls |-> <<>>],
                                        effect).effects
            /\ result' = None
       ELSE /\ effects' = effects
            /\ result' = "ValueError"
    /\ calls' = <<>>
    /\ op' = "remove_effect"
    /\ arg' = [NoArg EXCEPT !.e = effect]
    /\ snapshot' = <<>>
    /\ UNCHANGED <<duration, pc, it_index, event, nonSceneVars>>

SceneReset(has_old, old) ==
    /\ pc = "idle"
    /\ calls' = reset_calls(effects, has_old, old)
    /\ op' = "reset"
    /\ arg' = [NoArg EXCEPT !.has_old = has_old, !.old = old]
    /\ result' = IF \E i \in 1..Len(calls') :
                        calls'[i][1] = "clone" /\ calls'[i][2] \notin CloneCap
                 THEN "AttributeError" ELSE None
    /\ snapshot' = <<>>
    /\ UNCHANGED <<effects, duration, pc, it_index, event, nonSceneVars>>

SceneExit ==
    /\ pc = "idle"
    /\ calls' = exit_calls(effects)
    /\ op' = "exit"
    /\ arg' = NoArg
    /\ result' = IF \E i \in 1..Len(calls') :
                        calls'[i][1] = "save" /\ calls'[i][2] \notin SaveCap
                 THEN "AttributeError" ELSE None
    /\ snapshot' = <<>>
    /\ UNCHANGED <<effects, duration, pc, it_index, event, nonSceneVars>>

\* process_event, entry: `for effect in reversed(self._effects)` creates the iterator
ProcessEvent(ev) ==
    /\ pc = "idle"
    /\ pc' = "dispatch"
    /\ it_index' = Len(effects) - 1
    /\ event' = ev
    /\ snapshot' = effects
    /\ calls' = <<>>
    /\ op' = "process_event"
    /\ arg' = [NoArg EXCEPT !.ev = ev]
    /\ result' = "pending"
    /\ UNCHANGED <<effects, duration, nonSceneVars>>

\* what process_event hands back when the handler returned None (line 109-112)
consumed_return(ev) == ev

\* the rest of one pass of the loop body, once the handler has returned new_event
\* and left the Scene as s
LoopBody(new_event, s) ==
    /\ effects' = s.effects
    /\ calls' = s.calls
    /\ IF new_event = None
       THEN /\ pc' = "idle"
            /\ result' = consumed_return(event)
            /\ it_index' = -1
            /\ event' = None
       ELSE /\ event' = new_event
            /\ it_index' = it_index - 1
            /\ UNCHANGED <<pc, result>>
    /\ UNCHANGED <<duration, op, arg, snapshot, nonSceneVars>>

\* one pass of the loop: the iterator yields effects[it_index] and its handler runs
\* without touching the Scene
DispatchStep ==
    /\ pc = "dispatch"
    /\ 0 <= it_index /\ it_index < Len(effects)
    /\ \E new_event \in Events \cup {None} :
           LoopBody(new_event,
                    [effects |-> effects,
                     calls   |-> Append(calls, <<"process_event", effects[it_index + 1],
                                                 event, new_event>>)])

\* one pass of the loop whose handler calls add_effect/remove_effect on the Scene
DispatchStepReentrant ==
    /\ pc = "dispatch"
    /\ 0 <= it_index /\ it_index < Len(effects)
    /\ \E new_event \in Events \cup {None} :
           LET called == [effects |-> effects,
                          calls   |-> Append(calls, <<"process_event",
                                                      effects[it_index + 1],
                                                      event, new_event>>)]
           IN  \E s \in HandlerOutcomes(called, MaxMutations) \ {called} :
                   LoopBody(new_event, s)

\* the iterator is exhausted (index out of the list's present range): return event
DispatchEnd ==
    /\ pc = "dispatch"
    /\ ~(0 <= it_index /\ it_index < Len(effects))
    /\ pc' = "idle"
    /\ result' = event
    /\ it_index' = -1
    /\ event' = None
    /\ UNCHANGED <<effects, duration, op, arg, calls, snapshot, nonSceneVars>>

SceneNext ==
    \/ \E e \in Effects, r \in BOOLEAN : AddEffect(e, r)
    \/ \E e \in Effects : RemoveEffect(e)
    \/ \E old \in SeqsUpTo(Effects, MaxOldEffects) : SceneReset(TRUE, old)
    \/ SceneReset(FALSE, <<>>)
    \/ SceneExit
    \/ \E ev \in Events : ProcessEvent(ev)
    \/ DispatchStep
    \/ DispatchEnd

\* a Scene from the constructor call on
ConstructNext ==
    \/ Construct
    \/ \E e \in Effects, r \in BOOLEAN : AddEffect(e, r)
    \/ \E e \in Effects : RemoveEffect(e)

\* the same Scene, built with an explicit duration, with effects whose handlers
\* change the effect list while the event is being dispatched
ReentrantInit == SceneInit /\ arg.duration = -1

ReentrantNext ==
    \/ \E e \in Effects, r \in BOOLEAN : AddEffect(e, r)
    \/ \E e \in Effects : RemoveEffect(e)
    \/ \E ev \in Events : ProcessEvent(ev)
    \/ DispatchStep
    \/ DispatchStepReentrant
    \/ DispatchEnd


(***************************************************************************)
(* Path (paths.py): recording.  p = [steps, rec_x, rec_y].                 *)
(***************************************************************************)
Coords == 0..MaxCoord

\* an _add_step that puts the new step in front of the recorded ones
_add_step_in_front(p, pos) ==
    [steps |-> <<pos>> \o p.steps, rec_x |-> pos[1], rec_y |-> pos[2]]

\* an _add_step that appends the step and forgets to note it as the last recorded
_add_step_unnoted(p, pos) ==
    [steps |-> Append(p.steps, pos), rec_x |-> p.rec_x, rec_y |-> p.rec_y]

_add_step(p, pos) ==
    [steps |-> Append(p.steps, pos), rec_x |-> pos[1], rec_y |-> pos[2]]

\* a wait that holds the position for one step more than asked
wait_one_more(p, delay) ==
    [steps |-> p.steps \o [i \in 1..(delay + 1) |-> <<p.rec_x, p.rec_y>>],
     rec_x |-> p.rec_x, rec_y |-> p.rec_y]

RECURSIVE wait(_, _)
wait(p, delay) ==
    IF delay <= 0 THEN p
    ELSE wait(_add_step(p, <<p.rec_x, p.rec_y>>), delay - 1)

\* a jump that passes through the start position once more on its way
jump_to_via_start(p, x, y) == _add_step(_add_step(p, <<p.rec_x, p.rec_y>>), <<x, y>>)

jump_to(p, x, y) == _add_step(p, <<x, y>>)

(***************************************************************************)
(* Python numbers.  An int is a TLA+ integer.  A float is an IEEE-754       *)
(* binary64 value [neg, m, e] standing for (-1)^neg * m * 2^e, where the   *)
(* natural m is a little-endian sequence of limbs below LimbBase, so that  *)
(* no intermediate value leaves the integers of the model checker.  Every  *)
(* float operation computes the exact result and rounds it once to         *)
(* Precision significant bits, ties to even, as the hardware does.  The    *)
(* operations are functions, so that an argument is evaluated once.        *)
(***************************************************************************)
LimbBits == 15
LimbBase == 2^LimbBits
Precision == 53
GuardBits == 5 * LimbBits   \* extra quotient bits a division computes before rounding

Big == Seq(Nat)
Float == [neg : BOOLEAN, m : Big, e : Int]
QuotRem == [q : Big, r : Nat]               \* a quotient and its remainder
ShiftOut == [q : Big, sticky : BOOLEAN]     \* what a right shift leaves

Limb(a, i) == IF i <= Len(a) THEN a[i] ELSE 0
IsOdd(a) == a # <<>> /\ a[1] % 2 = 1
Zeros(k) == [i \in 1..k |-> 0]

Trim[a \in Big] ==
    IF a = <<>> \/ a[Len(a)] # 0 THEN a ELSE Trim[SubSeq(a, 1, Len(a) - 1)]

BigFromNat[n \in Nat] ==
    IF n = 0 THEN <<>> ELSE <<n % LimbBase>> \o BigFromNat[n \div LimbBase]

BigToNat[a \in Big] ==
    IF a = <<>> THEN 0 ELSE a[1] + LimbBase * BigToNat[Tail(a)]

AddLimbs[a \in Big, b \in Big, i \in Nat, c \in Nat] ==
    IF i > Len(a) /\ i > Len(b) THEN (IF c = 0 THEN <<>> ELSE <<c>>)
    ELSE <<(Limb(a, i) + Limb(b, i) + c) % LimbBase>>
         \o AddLimbs[a, b, i + 1, (Limb(a, i) + Limb(b, i) + c) \div LimbBase]

BigAdd[a \in Big, b \in Big] == AddLimbs[a, b, 1, 0]

\* a - b for a >= b, c the borrow
SubLimbs[a \in Big, b \in Big, i \in Nat, c \in Nat] ==
    IF i > Len(a) THEN <<>>
    ELSE <<(a[i] - Limb(b, i) - c) % LimbBase>>
         \o SubLimbs[a, b, i + 1, IF a[i] - Limb(b, i) - c < 0 THEN 1 ELSE 0]

BigSub[a \in Big, b \in Big] == Trim[SubLimbs[a, b, 1, 0]]

CmpLimbs[a \in Big, b \in Big, i \in Nat] ==
    IF i = 0 THEN 0
    ELSE IF a[i] # b[i] THEN (IF a[i] < b[i] THEN -1 ELSE 1)
    ELSE CmpLimbs[a, b, i - 1]

\* -1, 0, 1 as a < b, a = b, a > b
BigCmp[a \in Big, b \in Big] ==
    IF Len(a) # Len(b) THEN (IF Len(a) < Len(b) THEN -1 ELSE 1)
    ELSE CmpLimbs[a, b, Len(a)]

\* a * n for a limb n
MulLimbs[a \in Big, n \in Nat, i \in Nat, c \in Nat] ==
    IF i > Len(a) THEN (IF c = 0 THEN <<>> ELSE <<c>>)
    ELSE <<(a[i] * n + c) % LimbBase>> \o MulLimbs[a, n, i + 1, (a[i] * n + c) \div LimbBase]

BigMulSmall[a \in Big, n \in Nat] == IF n = 0 THEN <<>> ELSE MulLimbs[a, n, 1, 0]

\* a * LimbBase^k
ShiftLimbs[a \in Big, k \in Nat] == IF a = <<>> THEN <<>> ELSE Zeros(k) \o a

BigMul[a \in Big, b \in Big] ==
    IF b = <<>> \/ a = <<>> THEN <<>>
    ELSE BigAdd[BigMulSmall[a, b[1]], ShiftLimbs[BigMul[a, Tail(b)], 1]]

\* a div n and a mod n for a limb n >= 1, from the top limb i down; q and r
\* are the quotient limbs and the remainder so far
DivLimbs[a \in Big, n \in Nat, i \in Nat, r \in Nat, q \in Big] ==
    IF i = 0 THEN [q |-> Trim[q], r |-> r]
    ELSE DivLimbs[a, n, i - 1, (r * LimbBase + a[i]) % n,
                  <<(r * LimbBase + a[i]) \div n>> \o q]

BigDivSmall[a \in Big, n \in Nat] == DivLimbs[a, n, Len(a), 0, <<>>]

\* a * 2^k
Shl[a \in Big, k \in Nat] == ShiftLimbs[BigMulSmall[a, 2^(k % LimbBits)], k \div LimbBits]

\* a div 2^k, and whether a non-zero bit was shifted out
Shifted[d \in QuotRem, dropped \in BOOLEAN] ==
    [q |-> d.q, sticky |-> d.r # 0 \/ dropped]

Shr[a \in Big, k \in Nat] ==
    Shifted[BigDivSmall[IF k \div LimbBits >= Len(a) THEN <<>>
                        ELSE SubSeq(a, k \div LimbBits + 1, Len(a)),
                        2^(k % LimbBits)],
            \E i \in 1..(k \div LimbBits) : Limb(a, i) # 0]

SmallBitLen[n \in Nat] == IF n = 0 THEN 0 ELSE 1 + SmallBitLen[n \div 2]

BitLen[a \in Big] ==
    IF a = <<>> THEN 0 ELSE (Len(a) - 1) * LimbBits + SmallBitLen[a[Len(a)]]

\* q, the first Precision bits of the exact magnitude, rounded by what follows
\* them: the next bit (half) and whether anything non-zero comes after it (rest)
RoundUp[neg \in BOOLEAN, q \in Big, half \in BOOLEAN, rest \in BOOLEAN, e \in Int] ==
    [neg |-> neg, e |-> e,
     m |-> IF half /\ (rest \/ IsOdd(q)) THEN BigAdd[q, <<1>>] ELSE q]

RoundCut[neg \in BOOLEAN, g \in ShiftOut, e \in Int, sticky \in BOOLEAN] ==
    RoundUp[neg, Shr[g.q, 1].q, IsOdd(g.q), g.sticky \/ sticky, e]

\* the float nearest to (-1)^neg * (m + s) * 2^e, where 0 < s < 1 if sticky
\* and s = 0 otherwise; with sticky, m has more than Precision bits
RoundBits[neg \in BOOLEAN, m \in Big, e \in Int, sticky \in BOOLEAN, len \in Nat] ==
    IF len <= Precision
    THEN [neg |-> neg /\ m # <<>>, m |-> m, e |-> IF m = <<>> THEN 0 ELSE e]
    ELSE RoundCut[neg, Shr[m, len - Precision - 1], e + len - Precision, sticky]

RoundD[neg \in BOOLEAN, m \in Big, e \in Int, sticky \in BOOLEAN] ==
    RoundBits[neg, m, e, sticky, BitLen[m]]

float[n \in Int] == RoundD[n < 0, BigFromNat[IF n < 0 THEN -n ELSE n], 0, FALSE]

FMul[a \in Float, b \in Float] == RoundD[a.neg # b.neg, BigMul[a.m, b.m], a.e + b.e, FALSE]

\* the sum of (-1)^na * ma * 2^e and (-1)^nb * mb * 2^e
AddAligned[na \in BOOLEAN, ma \in Big, nb \in BOOLEAN, mb \in Big, e \in Int] ==
    IF na = nb THEN RoundD[na, BigAdd[ma, mb], e, FALSE]
    ELSE IF BigCmp[ma, mb] >= 0 THEN RoundD[na, BigSub[ma, mb], e, FALSE]
    ELSE RoundD[nb, BigSub[mb, ma], e, FALSE]

FAdd[a \in Float, b \in Float] ==
    IF a.e < b.e THEN AddAligned[a.neg, a.m, b.neg, Shl[b.m, b.e - a.e], a.e]
    ELSE AddAligned[a.neg, Shl[a.m, a.e - b.e], b.neg, b.m, b.e]

FNeg[a \in Float] == [neg |-> ~a.neg /\ a.m # <<>>, m |-> a.m, e |-> a.e]

FSub[a \in Float, b \in Float] == FAdd[a, FNeg[b]]

DivRound[neg \in BOOLEAN, d \in QuotRem, e \in Int] ==
    RoundD[neg, d.q, e, d.r # 0]

\* a / float(n) for an int n >= 1
FDiv[a \in Float, n \in Nat] ==
    DivRound[a.neg, BigDivSmall[Shl[a.m, GuardBits], n], a.e - GuardBits]

\* int(a): the integer part, truncated toward zero
Magnitude[mag \in Big, neg \in BOOLEAN] ==
    IF neg THEN -BigToNat[mag] ELSE BigToNat[mag]

int[a \in Float] ==
    Magnitude[IF a.e >= 0 THEN Shl[a.m, a.e] ELSE Shr[a.m, -a.e].q, a.neg]

(***************************************************************************)
(* Path: interpolating builders.                                           *)
(***************************************************************************)
PathRec == [steps : Seq(Int \X Int), rec_x : Int, rec_y : Int]

\* _add_step applied to each element of new in turn
add_steps[p \in PathRec, new \in Seq(Int \X Int)] ==
    IF new = <<>> THEN p
    ELSE [steps |-> p.steps \o new,
          rec_x |-> new[Len(new)][1], rec_y |-> new[Len(new)][2]]

\* the steps the loop of move_straight_to passes to _add_step, in order
straight_steps(start_x, start_y, x, y, n) ==
    [i \in 1..n |->
        <<int[FAdd[float[start_x], FMul[FDiv[float[x - start_x], n], float[i]]]],
          int[FAdd[float[start_y], FMul[FDiv[float[y - start_y], n], float[i]]]]>>]

move_straight_to(p, x, y, n) ==
    add_steps[p, straight_steps(p.rec_x, p.rec_y, x, y, n)]

_spline[t \in Float, p0 \in Float, p1 \in Float, p2 \in Float, p3 \in Float] ==
    FDiv[FAdd[FAdd[FAdd[
        FMul[FMul[t, FSub[FMul[FSub[float[2], t], t], float[1]]], p0],
        FMul[FAdd[FMul[FMul[t, t], FSub[FMul[float[3], t], float[5]]], float[2]], p1]],
        FMul[FMul[t, FAdd[FMul[FSub[float[4], FMul[float[3], t]], t], float[1]]], p2]],
        FMul[FMul[FMul[FSub[t, float[1]], t], t], p3]], 2]

\* spline steps whose sub-steps run over range(0, steps_per_spline)
spline_steps_from_zero(w, steps_per_spline) ==
    [k \in 1..((Len(w) - 3) * steps_per_spline) |->
        LET j == ((k - 1) \div steps_per_spline) + 1
            t == (k - 1) % steps_per_spline
        IN  <<int[FAdd[float[w[j + 1][1]],
                       FDiv[FMul[float[w[j + 2][1] - w[j + 1][1]], float[t]],
                            steps_per_spline]]],
              int[_spline[FDiv[float[t], steps_per_spline],
                          float[w[j][2]], float[w[j + 1][2]],
                          float[w[j + 2][2]], float[w[j + 3][2]]]]>>]

\* the steps the two loops of move_round_to pass to _add_step, in order: the
\* k-th is sub-step t of segment j of the padded list w (1-based: the code's
\* points[j] is w[j + 1])
spline_steps(w, steps_per_spline) ==
    [k \in 1..((Len(w) - 3) * steps_per_spline) |->
        LET j == ((k - 1) \div steps_per_spline) + 1
            t == ((k - 1) % steps_per_spline) + 1
        IN  <<int[FAdd[float[w[j + 1][1]],
                       FDiv[FMul[float[w[j + 2][1] - w[j + 1][1]], float[t]],
                            steps_per_spline]]],
              int[_spline[FDiv[float[t], steps_per_spline],
                          float[w[j][2]], float[w[j + 1][2]],
                          float[w[j + 2][2]], float[w[j + 3][2]]]]>>]

\* points after the two insert(0, ...) calls and the append of its last element
padded(p, points) ==
    <<<<p.rec_x, p.rec_y>>, <<p.rec_x, p.rec_y>>>> \o points
        \o <<IF points = <<>> THEN <<p.rec_x, p.rec_y>> ELSE points[Len(points)]>>

\* a move_round_to that rounds the steps of a segment up, not down
move_round_to_generous(p, points, n) ==
    IF Len(padded(p, points)) - 3 = 0
    THEN [exc |-> "ZeroDivisionError", p |-> p, points |-> padded(p, points)]
    ELSE [exc |-> "none",
          p |-> add_steps[p, spline_steps(padded(p, points),
                                          (n + Len(padded(p, points)) - 4)
                                              \div (Len(padded(p, points)) - 3))],
          points |-> padded(p, points)]

\* [exc, p, points]: the exception raised if any, the Path afterwards, and
\* the caller's list afterwards (the padding is done on the list itself)
move_round_to(p, points, n) ==
    IF Len(padded(p, points)) - 3 = 0
    THEN [exc |-> "ZeroDivisionError", p |-> p, points |-> padded(p, points)]
    ELSE [exc |-> "none",
          p |-> add_steps[p, spline_steps(padded(p, points),
                                          n \div (Len(padded(p, points)) - 3))],
          points |-> padded(p, points)]

(***************************************************************************)
(* Path: playback.  A list subscript out of range raises IndexError, and   *)
(* the statements after it (the increment of the cursor) do not run.       *)
(***************************************************************************)
NoVal == <<>>
\* points is the caller's list as handed over, points_after the same list object
\* once the call is over
NoPathArg == [x |-> 0, y |-> 0, n |-> 0, points |-> <<>>, points_after |-> <<>>]
NoDynResult == [pos |-> <<>>, fin |-> FALSE, ev |-> None]

subscript(list, i) ==       \* list[i] for a 0-based i >= 0
    IF i < Len(list) THEN [exc |-> "none", val |-> list[i + 1]]
    ELSE [exc |-> "IndexError", val |-> NoVal]

last_item(list) ==          \* list[-1]
    IF Len(list) > 0 THEN [exc |-> "none", val |-> list[Len(list)]]
    ELSE [exc |-> "IndexError", val |-> NoVal]

\* a next_pos that forgets to advance the cursor
next_pos_stuck(st, idx) ==
    IF idx <= Len(st)
    THEN LET r == subscript(st, idx)
         IN  [exc |-> r.exc, val |-> r.val, index |-> idx]
    ELSE LET r == last_item(st)
         IN  [exc |-> r.exc, val |-> r.val, index |-> idx]

\* a next_pos that advances the cursor before it looks the step up
next_pos_advances_first(st, idx) ==
    IF idx <= Len(st)
    THEN LET r == subscript(st, idx)
         IN  [exc |-> r.exc, val |-> r.val, index |-> idx + 1]
    ELSE LET r == last_item(st)
         IN  [exc |-> r.exc, val |-> r.val, index |-> idx]

next_pos(st, idx) ==
    IF idx <= Len(st)
    THEN LET r == subscript(st, idx)
         IN  [exc |-> r.exc, val |-> r.val,
              index |-> IF r.exc = "none" THEN idx + 1 ELSE idx]
    ELSE LET r == last_item(st)
         IN  [exc |-> r.exc, val |-> r.val, index |-> idx]

\* an is_finished that is off by one
is_finished_late(st, idx) == idx > Len(st)

\* an is_finished that reports the end only once the path is empty or overrun
is_finished_never_at_end(st, idx) == idx > Len(st) \/ Len(st) = 0

is_finished(st, idx) == idx >= Len(st)

\* a reset that rewinds one step only
reset_index_back_one(idx) == IF idx > 0 THEN idx - 1 ELSE 0

reset_index(idx) == 0

(***************************************************************************)
(* Path: initial state (Path.__init__) and operations.                     *)
(***************************************************************************)
PathInit ==
    /\ steps = <<>>
    /\ index = reset_index(0)
    /\ rec_x = 0
    /\ rec_y = 0
    /\ path_op = "__init__"
    /\ path_arg = NoPathArg
    /\ path_result = [exc |-> "none", val |-> NoVal, fin |-> FALSE]
    /\ played = <<>>
    /\ dirty = FALSE
    /\ first_play = <<>>
    /\ replays = FALSE
    /\ modified = FALSE

\* the Path after a builder operation left it as p
Recorded(p) ==
    /\ steps' = p.steps
    /\ rec_x' = p.rec_x
    /\ rec_y' = p.rec_y
    /\ path_result' = [exc |-> "none", val |-> NoVal, fin |-> FALSE]
    /\ dirty' = (dirty \/ played # <<>>)
    /\ modified' = (modified \/ first_play # <<>>)
    /\ UNCHANGED <<index, played, first_play, replays, nonPathVars>>

\* the same, for the paths short enough to be played back step by step
Built(p) ==
    /\ Len(p.steps) <= MaxPathLen
    /\ Recorded(p)

Wait(delay) ==
    /\ path_op' = "wait"
    /\ path_arg' = [NoPathArg EXCEPT !.n = delay]
    /\ Built(wait([steps |-> steps, rec_x |-> rec_x, rec_y |-> rec_y], delay))

JumpTo(x, y) ==
    /\ path_op' = "jump_to"
    /\ path_arg' = [NoPathArg EXCEPT !.x = x, !.y = y]
    /\ Built(jump_to([steps |-> steps, rec_x |-> rec_x, rec_y |-> rec_y], x, y))

Reset ==
    /\ index' = reset_index(index)
    /\ path_op' = "reset"
    /\ path_arg' = NoPathArg
    /\ path_result' = [exc |-> "none", val |-> NoVal, fin |-> FALSE]
    /\ played' = <<>>
    /\ dirty' = FALSE
    /\ replays' = TRUE
    /\ UNCHANGED <<steps, rec_x, rec_y, first_play, modified, nonPathVars>>

NextPos ==
    /\ Len(played) < MaxCalls
    /\ LET r == next_pos(steps, index)
       IN  /\ index' = r.index
           /\ path_result' = [exc |-> r.exc, val |-> r.val, fin |-> FALSE]
           /\ played' = Append(played, [exc |-> r.exc, val |-> r.val])
           /\ first_play' = IF replays THEN first_play
                            ELSE Append(first_play, [exc |-> r.exc, val |-> r.val])
    /\ path_op' = "next_pos"
    /\ path_arg' = NoPathArg
    /\ UNCHANGED <<steps, rec_x, rec_y, dirty, replays, modified, nonPathVars>>

IsFinished ==
    /\ path_op' = "is_finished"
    /\ path_arg' = NoPathArg
    /\ path_result' = [exc |-> "none", val |-> NoVal, fin |-> is_finished(steps, index)]
    /\ UNCHANGED <<steps, index, rec_x, rec_y, played, dirty, first_play, replays,
                   modified, nonPathVars>>

PathNext ==
    \/ \E d \in 0..MaxDelay : Wait(d)
    \/ \E x \in Coords, y \in Coords : JumpTo(x, y)
    \/ Reset
    \/ NextPos
    \/ IsFinished

(***************************************************************************)
(* Path under a driver that asks is_finished() before every next_pos()    *)
(* and calls next_pos() only when the answer was False (the loop of a      *)
(* sprite that follows the path); the path may be rewound and extended at  *)
(* any time.                                                               *)
(***************************************************************************)
DrivenNextPos ==
    /\ ~is_finished(steps, index)
    /\ NextPos

DriverNext ==
    \/ \E d \in 0..MaxDelay : Wait(d)
    \/ \E x \in Coords, y \in Coords : JumpTo(x, y)
    \/ Reset
    \/ IsFinished
    \/ DrivenNextPos

(***************************************************************************)
(* Path: the interpolating builders, each applied to a Path that is new or *)
(* has been moved to a start position by one jump_to.                      *)
(***************************************************************************)
StepCounts == {0, 1, 2, 3, 10, 49}
Targets == (-MaxCoord)..MaxCoord
Waypoints == {<<MaxCoord, 0>>, <<0, MaxCoord>>}

StartAt(x, y) ==
    /\ steps = <<>>
    /\ JumpTo(x, y)

MoveStraightTo(x, y, n) ==
    /\ path_op \in {"__init__", "jump_to"}
    /\ path_op' = "move_straight_to"
    /\ path_arg' = [NoPathArg EXCEPT !.x = x, !.y = y, !.n = n]
    /\ \E p \in {move_straight_to([steps |-> steps, rec_x |-> rec_x, rec_y |-> rec_y],
                                   x, y, n)} : Recorded(p)

MoveRoundTo(points, n) ==
    /\ path_op \in {"__init__", "jump_to"}
    /\ path_op' = "move_round_to"
    /\ \E r \in {move_round_to([steps |-> steps, rec_x |-> rec_x, rec_y |-> rec_y],
                                points, n)} :
        /\ path_arg' = [NoPathArg EXCEPT !.points = points, !.n = n,
                                         !.points_after = r.points]
        /\ IF r.exc = "none" THEN Recorded(r.p)
           ELSE /\ path_result' = [exc |-> r.exc, val |-> NoVal, fin |-> FALSE]
                /\ UNCHANGED <<steps, index, rec_x, rec_y, played, dirty, first_play,
                               replays, modified, nonPathVars>>

BuilderNext ==
    \/ \E x \in Coords, y \in Coords : StartAt(x, y)
    \/ \E x \in Targets, y \in Targets, n \in StepCounts : MoveStraightTo(x, y, n)
    \/ \E points \in SeqsUpTo(Waypoints, MaxWaypoints), n \in 0..MaxRoundSteps :
           MoveRoundTo(points, n)

(***************************************************************************)
(* Path: the interpolating builders on any Path, a playback under way      *)
(* included, for the paths short enough to be played back step by step.    *)
(***************************************************************************)
StraightBuilt(x, y, n) ==
    /\ Len(steps) + n <= MaxPathLen
    /\ path_op' = "move_straight_to"
    /\ path_arg' = [NoPathArg EXCEPT !.x = x, !.y = y, !.n = n]
    /\ \E p \in {move_straight_to([steps |-> steps, rec_x |-> rec_x, rec_y |-> rec_y],
                                   x, y, n)} : Built(p)

RoundBuilt(points, n) ==
    /\ Len(steps) + n <= MaxPathLen
    /\ path_op' = "move_round_to"
    /\ \E r \in {move_round_to([steps |-> steps, rec_x |-> rec_x, rec_y |-> rec_y],
                                points, n)} :
        /\ path_arg' = [NoPathArg EXCEPT !.points = points, !.n = n,
                                         !.points_after = r.points]
        /\ IF r.exc = "none" THEN Built(r.p)
           ELSE /\ path_result' = [exc |-> r.exc, val |-> NoVal, fin |-> FALSE]
                /\ UNCHANGED <<steps, index, rec_x, rec_y, played, dirty, first_play,
                               replays, modified, nonPathVars>>

\* every position handed to a builder here is one of the Waypoints
MixedSteps == {0, 1, 2}
MixedPoints == {<<>>} \cup {points \in Waypoints \X Waypoints : points[1] # points[2]}

MixedNext ==
    \/ \E d \in MixedSteps : Wait(d)
    \/ \E w \in Waypoints : JumpTo(w[1], w[2])
    \/ \E w \in Waypoints, n \in MixedSteps : StraightBuilt(w[1], w[2], n)
    \/ \E points \in MixedPoints, n \in MixedSteps : RoundBuilt(points, n)
    \/ Reset
    \/ NextPos
    \/ IsFinished

(***************************************************************************)
(* DynamicPath (paths.py): a path whose position is set by the events a    *)
(* subclass handles.  The object is the record [x, y, start_x, start_y].   *)
(***************************************************************************)
DynamicPath_reset_keeps(d) == d

DynamicPath_reset(d) == [d EXCEPT !.x = d.start_x, !.y = d.start_y]

DynamicPath__init__(x, y) ==
    DynamicPath_reset([x |-> x, y |-> y, start_x |-> x, start_y |-> y])

DynamicPath_next_pos(d) == <<d.x, d.y>>

DynamicPath_is_finished_home(d) == d.x = d.start_x /\ d.y = d.start_y

DynamicPath_is_finished(d) == FALSE

\* the object the DynamicPath variables hold
Dyn == [x |-> dyn_x, y |-> dyn_y, start_x |-> dyn_start_x, start_y |-> dyn_start_y]

\* the variables take the object d; op returned res
DynCalled(d, res) ==
    /\ dyn_x' = d.x /\ dyn_y' = d.y
    /\ dyn_start_x' = d.start_x /\ dyn_start_y' = d.start_y
    /\ dyn_result' = res
    /\ dyn_prev' = <<dyn_x, dyn_y>>
    /\ UNCHANGED <<sceneVars, pathVars, typewriterVars, pickerVars>>

DynamicInit ==
    \E x \in Coords, y \in Coords :
        LET d == DynamicPath__init__(x, y)
        IN  /\ dyn_x = d.x /\ dyn_y = d.y
            /\ dyn_start_x = d.start_x /\ dyn_start_y = d.start_y
            /\ dyn_op = "__init__" /\ dyn_result = NoDynResult
            /\ dyn_prev = <<x, y>>

DynamicReset ==
    /\ dyn_op' = "reset"
    /\ DynCalled(DynamicPath_reset(Dyn), NoDynResult)

DynamicNextPos ==
    /\ dyn_op' = "next_pos"
    /\ DynCalled(Dyn, [NoDynResult EXCEPT !.pos = DynamicPath_next_pos(Dyn)])

DynamicIsFinished ==
    /\ dyn_op' = "is_finished"
    /\ DynCalled(Dyn, [NoDynResult EXCEPT !.fin = DynamicPath_is_finished(Dyn)])

\* process_event is abstract: a subclass's handler moves the current position
\* anywhere (or leaves it) and returns the event or None
DynamicProcessEvent(ev) ==
    /\ dyn_op' = "process_event"
    /\ \E x \in Coords, y \in Coords, new_event \in {ev, None} :
           DynCalled([Dyn EXCEPT !.x = x, !.y = y],
                     [NoDynResult EXCEPT !.ev = new_event])

DynamicNext ==
    \/ DynamicReset
    \/ DynamicNextPos
    \/ DynamicIsFinished
    \/ \E ev \in Events : DynamicProcessEvent(ev)

(***************************************************************************)
(* Typewriter (renderers/typewriter.py): reveals its source one glyph more *)
(* per rendering.  The source's rendered_text is (rows of glyphs, parallel *)
(* rows of (fg, attr, bg) triples); the source here draws each glyph in    *)
(* the colour Palette gives it.                                            *)
(***************************************************************************)
Glyphs == {"p", "q"}
Palette == [p |-> <<1, 0, 0>>, q |-> <<7, 2, 4>>]
Texts == SeqsUpTo(SeqsUpTo(Glyphs, MaxRowLen), MaxRows)
colour_map(text) ==
    [y \in 1..Len(text) |-> [x \in 1..Len(text[y]) |-> Palette[text[y][x]]]]

\* sum(len(x) for x in self._source.rendered_text[0])
RECURSIVE total_glyphs(_)
total_glyphs(text) ==
    IF text = <<>> THEN 0 ELSE Len(text[1]) + total_glyphs(Tail(text))

\* `for x, char in enumerate(row)` from offset x on, with the local count and the
\* writes made so far in st; self._count is limit.  The break leaves this loop only.
RECURSIVE row_loop(_, _, _, _, _, _)
row_loop(row, colours, x, y, st, limit) ==
    IF x >= Len(row) THEN st
    ELSE IF st.count + 1 > limit
         THEN [st EXCEPT !.count = st.count + 1]
         ELSE row_loop(row, colours, x + 1, y,
                       [count  |-> st.count + 1,
                        writes |-> Append(st.writes,
                                          <<row[x + 1], x, y>> \o colours[x + 1])],
                       limit)

\* `for y, row in enumerate(text)` from offset y on
RECURSIVE text_loop(_, _, _, _, _)
text_loop(text, colours, y, st, limit) ==
    IF y >= Len(text) THEN st
    ELSE text_loop(text, colours, y + 1,
                   row_loop(text[y + 1], colours[y + 1], 0, y, st, limit), limit)

\* a typewriter that counts the glyphs of every row from zero
RECURSIVE rows_from_zero(_, _, _)
rows_from_zero(text, y, limit) ==
    IF y >= Len(text) THEN <<>>
    ELSE row_loop(text[y + 1], colour_map(text)[y + 1], 0, y,
                  [count |-> 0, writes |-> <<>>], limit).writes
         \o rows_from_zero(text, y + 1, limit)

_render_now_per_row(text, count) ==
    [count |-> count + 1, writes |-> rows_from_zero(text, 0, count + 1)]

\* _render_now on source text with self._count = count: the new self._count and
\* the _write calls made
_render_now(text, count) ==
    [count  |-> count + 1,
     writes |-> text_loop(text, colour_map(text), 0,
                          [count |-> 0, writes |-> <<>>], count + 1).writes]

TypewriterInit ==
    /\ tw_text \in Texts
    /\ tw_count = 0
    /\ tw_op = "__init__"
    /\ tw_written = <<>>
    /\ tw_renders = 0

TypewriterReset ==
    /\ tw_count' = 0
    /\ tw_op' = "reset"
    /\ tw_renders' = 0
    /\ UNCHANGED <<tw_text, tw_written, sceneVars, pathVars, dynVars, pickerVars>>

\* one rendering: self._count and the writes become what _render_now makes them
Rendered(r) ==
    /\ tw_renders < MaxRenders
    /\ tw_count' = r.count
    /\ tw_written' = r.writes
    /\ tw_renders' = tw_renders + 1
    /\ UNCHANGED <<tw_text, sceneVars, pathVars, dynVars, pickerVars>>

\* the rendered_text the next frame asks for
RenderNow ==
    /\ tw_op' = "_render_now"
    /\ \E r \in {_render_now(tw_text, tw_count)} : Rendered(r)

\* the next image the _render_all generator yields
RenderAll ==
    /\ tw_count < total_glyphs(tw_text)
    /\ tw_op' = "_render_all"
    /\ \E r \in {_render_now(tw_text, tw_count)} : Rendered(r)

TypewriterNext ==
    \/ TypewriterReset
    \/ RenderNow
    \/ RenderAll

(***************************************************************************)
(* _BasePicker (widgets/basepicker.py): a widget of a frame in the Scene   *)
(* that opens a popup effect when it is selected.  An event is a record    *)
(* with its class in type: a KeyboardEvent has a key_code, a MouseEvent    *)
(* its buttons and, in over, whether its position is over the widget       *)
(* (label excluded); NoEvent is Python's None.                             *)
(***************************************************************************)
CtrlM == 13         \* Screen.ctrl("M")
CtrlJ == 10         \* Screen.ctrl("J")
Space == 32         \* ord(" ")
KeyCodes == {CtrlM, CtrlJ, Space, 9, 113, -204}
Buttons == {0, 1, 2, 4}
NoEvent == [type |-> "None"]
PickerEvents ==
    [type : {"KeyboardEvent"}, key_code : KeyCodes]
        \cup [type : {"MouseEvent"}, buttons : Buttons, over : BOOLEAN]
        \cup {[type |-> "Event"]}
Popup == "popup"    \* the effect self._popup(self) creates

is_mouse_over(ev) == ev.over

\* a picker that opens on any key
selected_by_any_key(ev) ==
    IF ev.type = "KeyboardEvent" THEN TRUE
    ELSE IF ev.type = "MouseEvent"
         THEN ev.buttons # 0 /\ is_mouse_over(ev)
         ELSE FALSE

\* whether lines 45-52 set event to None
selected(ev) ==
    IF ev.type = "KeyboardEvent"
    THEN ev.key_code \in {CtrlM, CtrlJ, Space}
    ELSE IF ev.type = "MouseEvent"
         THEN ev.buttons # 0 /\ is_mouse_over(ev)
         ELSE FALSE

\* process_event of a picker with self._child = child whose frame is in the Scene
\* s = [effects, calls]: the value returned, self._child and the Scene afterwards
_BasePicker_process_event(child, s, ev) ==
    IF ev # NoEvent /\ selected(ev)
    THEN [ret |-> NoEvent, child |-> Popup, scene |-> add_effect(s, Popup, TRUE)]
    ELSE [ret |-> ev, child |-> child, scene |-> s]

PickerInit ==
    /\ SceneInit
    /\ picker_child = None
    /\ picker_event = NoEvent
    /\ picker_result = NoEvent

PickerProcessEvent(ev) ==
    /\ pc = "idle"
    /\ Len(effects) < MaxEffects
    /\ \E r \in {_BasePicker_process_event(picker_child,
                                           [effects |-> effects, calls |-> <<>>], ev)} :
           /\ picker_result' = r.ret
           /\ picker_child' = r.child
           /\ effects' = r.scene.effects
           /\ calls' = r.scene.calls
    /\ picker_event' = ev
    /\ op' = "_BasePicker.process_event"
    /\ arg' = NoArg
    /\ result' = None
    /\ snapshot' = <<>>
    /\ UNCHANGED <<duration, pc, it_index, event, pathVars, dynVars, typewriterVars>>

\* the popup closes: it removes itself from the Scene
PopupClose ==
    /\ \E i \in 1..Len(effects) : effects[i] = Popup
    /\ RemoveEffect(Popup)

PickerNext ==
    \/ \E ev \in PickerEvents \cup {NoEvent} : PickerProcessEvent(ev)
    \/ PopupClose

(***************************************************************************)
(* The specifications.  Each leaves the other objects in their initial     *)
(* state.                                                                  *)
(***************************************************************************)
PathIdle ==
    /\ steps = <<>> /\ index = 0 /\ rec_x = 0 /\ rec_y = 0
    /\ path_op = "__init__" /\ path_arg = NoPathArg
    /\ path_result = [exc |-> "none", val |-> NoVal, fin |-> FALSE]
    /\ played = <<>> /\ dirty = FALSE /\ first_play = <<>>
    /\ replays = FALSE /\ modified = FALSE

SceneIdle ==
    /\ effects = <<>> /\ duration = -1 /\ pc = "idle"
    /\ it_index = -1 /\ event = None /\ op = "__init__" /\ arg = NoArg
    /\ result = None /\ calls = <<>> /\ snapshot = <<>>


DynamicIdle ==
    /\ dyn_x = 0 /\ dyn_y = 0 /\ dyn_start_x = 0 /\ dyn_start_y = 0
    /\ dyn_op = "__init__" /\ dyn_result = NoDynResult /\ dyn_prev = <<0, 0>>

TypewriterIdle ==
    /\ tw_text = <<>> /\ tw_count = 0 /\ tw_op = "__init__"
    /\ tw_written = <<>> /\ tw_renders = 0

PickerIdle == picker_child = None /\ picker_event = NoEvent /\ picker_result = NoEvent

SceneSpecInit == SceneInit /\ PathIdle /\ DynamicIdle /\ TypewriterIdle /\ PickerIdle
SceneSpec == SceneSpecInit /\ [][SceneNext]_vars
ReentrantSpecInit == ReentrantInit /\ PathIdle /\ DynamicIdle /\ TypewriterIdle /\ PickerIdle
ReentrantSpec == ReentrantSpecInit /\ [][ReentrantNext]_vars
PathSpecInit == PathInit /\ SceneIdle /\ DynamicIdle /\ TypewriterIdle /\ PickerIdle
PathSpec == PathSpecInit /\ [][PathNext]_vars
ConstructSpecInit == NewScene /\ PathIdle /\ DynamicIdle /\ TypewriterIdle /\ PickerIdle
ConstructSpec == ConstructSpecInit /\ [][ConstructNext]_vars
BuilderSpecInit == PathInit /\ SceneIdle /\ DynamicIdle /\ TypewriterIdle /\ PickerIdle
BuilderSpec == BuilderSpecInit /\ [][BuilderNext]_vars
DynamicSpecInit == DynamicInit /\ SceneIdle /\ PathIdle /\ TypewriterIdle /\ PickerIdle
DynamicSpec == DynamicSpecInit /\ [][DynamicNext]_vars
DriverSpecInit == PathInit /\ SceneIdle /\ DynamicIdle /\ TypewriterIdle /\ PickerIdle
DriverSpec == DriverSpecInit /\ [][DriverNext]_vars
MixedSpecInit == PathInit /\ SceneIdle /\ DynamicIdle /\ TypewriterIdle /\ PickerIdle
MixedSpec == MixedSpecInit /\ [][MixedNext]_vars
PickerSpecInit == PickerInit /\ PathIdle /\ DynamicIdle /\ TypewriterIdle
PickerSpec == PickerSpecInit /\ [][PickerNext]_vars
TypewriterSpecInit == TypewriterInit /\ SceneIdle /\ PathIdle /\ DynamicIdle /\ PickerIdle
TypewriterSpec == TypewriterSpecInit /\ [][TypewriterNext]_vars


(***************************************************************************)
(* What the log of the last Scene operation says.                          *)
(***************************************************************************)
Delivered == SelectSeq(calls, LAMBDA c : c[1] = "process_event")
DeliveredTo == [i \in 1..Len(Delivered) |-> Delivered[i][2]]
Consumed == \E i \in 1..Len(Delivered) : Delivered[i][4] = None
CallCount(m, e) == Cardinality({i \in 1..Len(calls) : calls[i][1] = m /\ calls[i][2] = e})
Registered(e, list) == \E i \in 1..Len(list) : list[i] = e

(***************************************************************************)
(* C1: Scene.process_event returns None whenever some effect's             *)
(* process_event returned None for the event.                              *)
(* The code breaks out of the loop before `event = new_event`, so it       *)
(* returns the event the consuming effect was given.                       *)
(***************************************************************************)
C1_ConsumedReturnsNone ==
    (pc = "idle" /\ op = "process_event" /\ Consumed) => result = None

(***************************************************************************)
(* C2: the event is offered in reverse registration order, each entry of   *)
(* the effect list at most once, and to nobody after the first effect that *)
(* returns None: the effects that received it are a prefix of the reversed *)
(* effect list, ending at the consumer.                                    *)
(***************************************************************************)
C2_ReverseOrderOnce ==
    op = "process_event" =>
        /\ IsPrefix(DeliveredTo, Reverse(snapshot))
        /\ \A i \in 1..(Len(Delivered) - 1) : Delivered[i][4] # None

(***************************************************************************)
(* C5: when handlers add or remove effects during the dispatch, no effect  *)
(* receives the event twice (more often than it was registered), and with  *)
(* the event unconsumed no effect that was registered at the start and     *)
(* still is at the end has been skipped.                                   *)
(***************************************************************************)
C5_MutationSafeDispatch ==
    op = "process_event" =>
        /\ \A e \in Effects :
               Count(e, DeliveredTo) <= IF Count(e, snapshot) > 1
                                        THEN Count(e, snapshot) ELSE 1
        /\ (pc = "idle" /\ ~Consumed) =>
               \A e \in Effects :
                   (Registered(e, snapshot) /\ Registered(e, effects))
                       => Count(e, DeliveredTo) >= 1

(***************************************************************************)
(* C6: Scene.reset(old_scene, screen) does not fail; it calls reset() once *)
(* for every entry of this scene's effect list, and clone once for every   *)
(* entry of old_scene's list whose effect exposes clone, never on an       *)
(* effect without clone and never without an old_scene.                    *)
(***************************************************************************)
C6_ResetCallsOncePerEffect ==
    op = "reset" =>
        /\ result = None
        /\ \A e \in Effects :
               /\ CallCount("reset", e) = Count(e, effects)
               /\ CallCount("clone", e) =
                      IF arg.has_old /\ e \in CloneCap THEN Count(e, arg.old) ELSE 0

C6_Witness ==
    /\ op = "reset"
    /\ arg.has_old
    /\ \E i \in 1..Len(arg.old) : arg.old[i] \in CloneCap
    /\ \E i \in 1..Len(arg.old) : arg.old[i] \notin CloneCap
    /\ Len(effects) >= 2
    /\ effects # arg.old

(***************************************************************************)
(* C7: Scene.exit() does not fail, leaves the effect list as it was, and   *)
(* calls save() once for every entry of the effect list whose effect       *)
(* exposes save and never on an effect without save.                       *)
(***************************************************************************)
C7_ExitSavesOncePerEffect ==
    [][op' = "exit" =>
          /\ result' = None
          /\ effects' = effects
          /\ \A e \in Effects :
                 CallCount("save", e)' = IF e \in SaveCap THEN Count(e, effects) ELSE 0
      ]_vars

C7_Witness ==
    /\ op = "exit"
    /\ \E i \in 1..Len(effects) : effects[i] \in SaveCap
    /\ \E i \in 1..Len(effects) : effects[i] \notin SaveCap
    /\ calls # <<>>

(***************************************************************************)
(* C8: a Scene built with duration 0 has the largest stop_frame of the     *)
(* effects it was built with as its duration, one built with another       *)
(* duration has that duration, and no later operation changes it.          *)
(***************************************************************************)
C8_DurationFixed ==
    /\ duration = IF arg.duration = 0
                  THEN SetMax({stop_frame(arg.old[i]) : i \in 1..Len(arg.old)})
                  ELSE arg.duration
    /\ [][duration' = duration]_vars

\* a Scene whose duration was derived as stop_frame("b"), after "c" was added to it
C8_Witness ==
    /\ op = "add_effect"
    /\ arg.e = "c"
    /\ duration = stop_frame("b")
    /\ stop_frame("c") > duration


(***************************************************************************)
(* Path playback.  Ok(pos) is a next_pos() call that returned pos.         *)
(***************************************************************************)
Ok(pos) == [exc |-> "none", val |-> pos]
Least(a, b) == IF a <= b THEN a ELSE b

(***************************************************************************)
(* C3: for a Path of N >= 1 recorded steps, the first N next_pos() calls   *)
(* after reset() return steps[0], ..., steps[N-1] in that order, and each  *)
(* advances the cursor by one.                                             *)
(***************************************************************************)
C3_PlaybackInOrder ==
    ~dirty =>
        /\ \A i \in 1..Least(Len(played), Len(steps)) : played[i] = Ok(steps[i])
        /\ Len(played) <= Len(steps) => index = Len(played)

C3_Witness ==
    /\ ~dirty
    /\ path_op = "next_pos"
    /\ Len(steps) >= 2
    /\ Len(played) = Len(steps)
    /\ steps[1] # steps[2]

(***************************************************************************)
(* C4: for a Path of N >= 1 recorded steps, the (N+1)th and every later    *)
(* next_pos() call after reset() returns the last recorded step and does   *)
(* not raise.                                                              *)
(* With the cursor at N the code takes the branch guarded by               *)
(* `index <= len(steps)` and subscripts steps[N]: IndexError.              *)
(***************************************************************************)
C4_FreezeAtLastStep ==
    (~dirty /\ Len(steps) >= 1) =>
        \A i \in 1..Len(played) : i > Len(steps) => played[i] = Ok(steps[Len(steps)])

(***************************************************************************)
(* C9: with no builder calls during playback, is_finished() is false       *)
(* while fewer than N next_pos() calls were made since reset() and true    *)
(* from the N-th call on, until the next reset(); for an empty Path it is  *)
(* true at once.                                                           *)
(***************************************************************************)
C9_FinishedAfterNCalls ==
    ~dirty =>
        /\ is_finished(steps, index) <=> (Len(played) >= Len(steps))
        /\ path_op = "is_finished" => (path_result.fin <=> (Len(played) >= Len(steps)))

C9_Witness ==
    /\ ~dirty
    /\ path_op = "is_finished"
    /\ path_result.fin
    /\ Len(steps) >= 2
    /\ Len(played) > Len(steps)

(***************************************************************************)
(* C10: reset() does not fail, sets the cursor to 0 and leaves the         *)
(* recorded steps and last_recorded alone; a playback after reset()        *)
(* returns the same positions as the first playback did (for a Path that   *)
(* was not extended after its first playback began).                       *)
(***************************************************************************)
C10_ResetReplays ==
    /\ [][path_op' = "reset" =>
             /\ path_result'.exc = "none"
             /\ index' = 0
             /\ steps' = steps /\ rec_x' = rec_x /\ rec_y' = rec_y
         ]_vars
    /\ [](  (replays /\ ~modified) =>
               \A i \in 1..Least(Len(played), Len(first_play)) :
                   i <= Len(steps) => played[i] = first_play[i]  )

C10_Witness ==
    /\ replays /\ ~modified
    /\ path_op = "next_pos"
    /\ Len(steps) >= 2
    /\ Len(first_play) >= 2
    /\ Len(played) >= 2
    /\ steps[1] # steps[2]

(***************************************************************************)
(* What the claims about the builders compare the recorded steps with.     *)
(***************************************************************************)
\* num / den for den >= 1, truncated toward zero
TruncQuot(num, den) == IF num >= 0 THEN num \div den ELSE -((-num) \div den)

\* start + (target - start) * i / n, truncated toward zero
Interpolated(start, target, i, n) == TruncQuot(start * n + (target - start) * i, n)

Copies(k, pos) == [i \in 1..k |-> pos]

FirstAt(list, x) == CHOOSE k \in 1..Len(list) : list[k] = x /\ \A j \in 1..(k - 1) : list[j] # x

Without(list, k) == [i \in 1..(Len(list) - 1) |-> IF i < k THEN list[i] ELSE list[i + 1]]

(***************************************************************************)
(* C11: move_straight_to(x, y, steps) with steps >= 1 always ends exactly  *)
(* on the target: the final appended step equals (x, y) and last_recorded  *)
(* becomes (x, y), for every start position, target and step count.        *)
(***************************************************************************)
C11_EndsOnTarget ==
    (path_op = "move_straight_to" /\ path_arg.n >= 1) =>
        /\ steps # <<>>
        /\ steps[Len(steps)] = <<path_arg.x, path_arg.y>>
        /\ rec_x = path_arg.x
        /\ rec_y = path_arg.y

(***************************************************************************)
(* C12: move_straight_to(x, y, steps) appends exactly `steps` steps, the   *)
(* i-th (i = 1..steps) being start + (target - start) * i / steps in each  *)
(* coordinate, truncated toward zero, where start is last_recorded at the  *)
(* time of the call.                                                       *)
(***************************************************************************)
C12_StraightSteps ==
    [][path_op' = "move_straight_to" =>
          steps' = steps \o [i \in 1..path_arg'.n |->
                                <<Interpolated(rec_x, path_arg'.x, i, path_arg'.n),
                                  Interpolated(rec_y, path_arg'.y, i, path_arg'.n)>>]
      ]_vars

(***************************************************************************)
(* C13: move_straight_to and move_round_to called with steps == 0 fail     *)
(* with an explicit invalid-step-count condition instead of returning      *)
(* normally, and leave the recorded steps unchanged.                       *)
(***************************************************************************)
C13_ZeroStepsRejected ==
    [][(path_op' \in {"move_straight_to", "move_round_to"} /\ path_arg'.n = 0) =>
          /\ path_result'.exc \notin {"none", "ZeroDivisionError"}
          /\ steps' = steps
      ]_vars

(***************************************************************************)
(* C14: move_round_to called with fewer than 2 waypoints (0 or 1) fails    *)
(* with an explicit insufficient-waypoints condition: it neither divides   *)
(* by zero nor silently appends steps.                                     *)
(***************************************************************************)
C14_FewWaypointsRejected ==
    [][(path_op' = "move_round_to" /\ Len(path_arg'.points) < 2) =>
          /\ path_result'.exc \notin {"none", "ZeroDivisionError"}
          /\ steps' = steps
      ]_vars

(***************************************************************************)
(* C15: move_round_to(waypoints, steps) with k >= 2 waypoints uses k       *)
(* spline segments (the length of the padded list minus 3) and appends     *)
(* exactly k * (steps div k) steps after the steps already recorded: the   *)
(* remainder steps are dropped, not redistributed.                         *)
(***************************************************************************)
C15_RoundStepCount ==
    [][(path_op' = "move_round_to" /\ Len(path_arg'.points) >= 2) =>
          LET k == Len(path_arg'.points)
              w == padded([steps |-> steps, rec_x |-> rec_x, rec_y |-> rec_y],
                          path_arg'.points)
          IN  /\ path_result'.exc = "none"
              /\ Len(w) - 3 = k
              /\ IsPrefix(steps, steps')
              /\ Len(steps') = Len(steps) + k * (path_arg'.n \div k)
      ]_vars

C15_Witness ==
    /\ path_op = "move_round_to"
    /\ Len(path_arg.points) = 3
    /\ path_arg.n = 5
    /\ Len(steps) = 4
    /\ steps[1] = <<1, 1>>

(***************************************************************************)
(* C16: wait(delay) appends exactly `delay` copies of last_recorded to the *)
(* end of the recorded steps and leaves last_recorded and the cursor       *)
(* unchanged.                                                              *)
(***************************************************************************)
C16_WaitAppendsCopies ==
    [][path_op' = "wait" =>
          /\ steps' = steps \o Copies(path_arg'.n, <<rec_x, rec_y>>)
          /\ rec_x' = rec_x
          /\ rec_y' = rec_y
          /\ index' = index
      ]_vars

C16_Witness ==
    /\ path_op = "wait"
    /\ path_arg.n = 1
    /\ steps = <<<<1, 0>>, <<1, 0>>>>
    /\ rec_x = 1 /\ rec_y = 0

(***************************************************************************)
(* C17: jump_to(x, y) appends exactly one step equal to (x, y), with no    *)
(* intermediate steps whatever the distance from last_recorded, and sets   *)
(* last_recorded to (x, y).                                                *)
(***************************************************************************)
C17_JumpAppendsOne ==
    [][path_op' = "jump_to" =>
          /\ steps' = Append(steps, <<path_arg'.x, path_arg'.y>>)
          /\ rec_x' = path_arg'.x
          /\ rec_y' = path_arg'.y
      ]_vars

C17_Witness ==
    /\ path_op = "jump_to"
    /\ steps = <<<<0, 0>>, <<1, 1>>>>
    /\ rec_x = 1 /\ rec_y = 1

(***************************************************************************)
(* C18: constructing a Scene with an empty effect list and the default     *)
(* duration 0 fails (no Scene is produced), while constructing it with an  *)
(* empty effect list and an explicit non-zero duration succeeds.           *)
(***************************************************************************)
C18_EmptySceneNeedsDuration ==
    (op = "__init__" /\ pc # "new" /\ arg.old = <<>>) =>
        IF arg.duration = 0
        THEN pc = "raised" /\ result = "ValueError"
        ELSE pc = "idle" /\ result = None /\ effects = <<>> /\ duration = arg.duration

C18_Witness ==
    /\ op = "__init__"
    /\ arg.old = <<>>
    /\ arg.duration = 0
    /\ pc = "raised"

(***************************************************************************)
(* C19: remove_effect(effect) removes exactly the first (bottommost)       *)
(* matching entry and keeps the relative order of all other effects; if    *)
(* the effect is not registered it fails with a not-found condition and    *)
(* leaves the effect list unchanged; in neither case is save() or reset()  *)
(* invoked on any effect.                                                  *)
(***************************************************************************)
C19_RemoveFirstMatch ==
    [][op' = "remove_effect" =>
          /\ IF Registered(arg'.e, effects)
             THEN /\ effects' = Without(effects, FirstAt(effects, arg'.e))
                  /\ result' = None
             ELSE /\ effects' = effects
                  /\ result' = "ValueError"
          /\ \A i \in 1..Len(calls') : calls'[i][1] \notin {"save", "reset"}
      ]_vars

C19_Witness ==
    /\ op = "remove_effect"
    /\ arg.e = "a"
    /\ result = None
    /\ effects = <<"b", "a">>
    /\ duration = 10

(***************************************************************************)
(* C20: add_effect(effect, reset) appends the effect at the end of the     *)
(* list, sets the effect's scene back-reference to this scene, leaves      *)
(* every previously registered effect and its position unchanged, and      *)
(* calls effect.reset() exactly once iff reset is true; Scene construction *)
(* registers its effects in the given order without calling reset() on     *)
(* any of them.                                                            *)
(***************************************************************************)
C20_AddEffectAppends ==
    /\ [][op' = "add_effect" =>
             /\ effects' = Append(effects, arg'.e)
             /\ Cardinality({i \in 1..Len(calls') : calls'[i][1] = "register_scene"}) = 1
             /\ Cardinality({i \in 1..Len(calls') : calls'[i][1] = "reset"})
                    = (IF arg'.reset THEN 1 ELSE 0)
             /\ Len(calls') = (IF arg'.reset THEN 2 ELSE 1)
             /\ \A i \in 1..Len(calls') : calls'[i][2] = arg'.e
             /\ \A i \in 1..Len(calls') :
                    calls'[i][1] = "register_scene" => calls'[i][3] = "self"
         ]_vars
    /\ [](  op = "__init__" =>
               /\ effects = arg.old
               /\ calls = [i \in 1..Len(arg.old) |->
                              <<"register_scene", arg.old[i], "self", None>>]  )

C20_Witness ==
    /\ op = "add_effect"
    /\ arg.reset
    /\ arg.e = "b"
    /\ effects = <<"a", "c", "b">>

(***************************************************************************)
(* C21: when no effect consumes the event, every effect whose registration *)
(* the dispatch leaves as it was receives the event exactly once (once per *)
(* entry of the list), the topmost receives the original event and each    *)
(* later one the value the one before it returned, and process_event       *)
(* returns the value the last one returned (the original event when the    *)
(* scene has no effects).                                                  *)
(***************************************************************************)
C21_UnconsumedThreadsEvent ==
    (op = "process_event" /\ pc = "idle" /\ ~Consumed) =>
        /\ \A e \in Effects :
               Count(e, effects) = Count(e, snapshot)
                   => Count(e, DeliveredTo) = Count(e, snapshot)
        /\ \A i \in 1..Len(Delivered) :
               Delivered[i][3] = IF i = 1 THEN arg.ev ELSE Delivered[i - 1][4]
        /\ result = IF Delivered = <<>> THEN arg.ev
                    ELSE Delivered[Len(Delivered)][4]

(***************************************************************************)
(* C22: DynamicPath.is_finished() is false in every reachable state,       *)
(* whatever reset, next_pos and process_event calls came before: every     *)
(* call made returned False and a call made now would.                     *)
(***************************************************************************)
C22_DynamicNeverFinished ==
    /\ ~DynamicPath_is_finished(Dyn)
    /\ dyn_op = "is_finished" => ~dyn_result.fin

C22_Witness ==
    /\ dyn_op = "is_finished"
    /\ <<dyn_x, dyn_y>> = <<dyn_start_x, dyn_start_y>>
    /\ dyn_result.fin = FALSE

(***************************************************************************)
(* C23: DynamicPath.next_pos() returns the current position and leaves it  *)
(* as it is; reset() puts the current position back to the start           *)
(* coordinates, which no call changes after construction.                  *)
(***************************************************************************)
C23_NextPosPureResetRestores ==
    [][/\ dyn_op' = "next_pos" =>
              /\ dyn_result'.pos = <<dyn_x, dyn_y>>
              /\ <<dyn_x', dyn_y'>> = <<dyn_x, dyn_y>>
       /\ dyn_op' = "reset" => <<dyn_x', dyn_y'>> = <<dyn_start_x, dyn_start_y>>
       /\ <<dyn_start_x', dyn_start_y'>> = <<dyn_start_x, dyn_start_y>>]_vars

C23_Witness ==
    /\ dyn_op = "reset"
    /\ dyn_prev # <<dyn_start_x, dyn_start_y>>
    /\ <<dyn_x, dyn_y>> = <<dyn_start_x, dyn_start_y>>

\* the glyphs of a block in row-major order from row y on, each with its column,
\* its row and its colour
RECURSIVE RowMajor(_, _)
RowMajor(text, y) ==
    IF y > Len(text) THEN <<>>
    ELSE [x \in 1..Len(text[y]) |-> <<text[y][x], x - 1, y - 1>> \o Palette[text[y][x]]]
         \o RowMajor(text, y + 1)

(***************************************************************************)
(* C24: the Typewriter reveals glyphs in row-major order with one counter  *)
(* for all rows: every rendering advances the counter by one, and the k-th *)
(* rendering since reset() writes exactly the first min(k, total) glyphs   *)
(* of the block in row-major order, each in its place; so no glyph is      *)
(* written while a glyph before it in that order is hidden.                *)
(***************************************************************************)
C24_RowMajorReveal ==
    tw_op \in {"_render_now", "_render_all"} =>
        /\ tw_count = tw_renders
        /\ tw_written = SubSeq(RowMajor(tw_text, 1), 1,
                               Least(tw_renders, total_glyphs(tw_text)))

C24_Witness ==
    /\ tw_op = "_render_now"
    /\ Len(tw_text) = 2
    /\ Len(tw_text[1]) = 2 /\ Len(tw_text[2]) = 2
    /\ tw_renders = 3
    /\ Len(tw_written) = 3

\* the calls of method m in the call log, in the order made
CallsOf(m) == SelectSeq(calls, LAMBDA c : c[1] = m)

(***************************************************************************)
(* C25: in Scene.reset(old_scene, screen) every reset() call on this       *)
(* scene's effects comes before the first clone call, and the clone calls  *)
(* go to old_scene's effects (those that offer clone) in old_scene's       *)
(* registration order, each with the arguments (screen, this scene).       *)
(***************************************************************************)
C25_ResetsBeforeClones ==
    op = "reset" =>
        /\ \A i \in 1..Len(calls), j \in 1..Len(calls) :
               (calls[i][1] = "reset" /\ calls[j][1] = "clone") => i < j
        /\ [i \in 1..Len(CallsOf("reset")) |-> CallsOf("reset")[i][2]] = effects
        /\ [i \in 1..Len(CallsOf("clone")) |-> CallsOf("clone")[i][2]]
               = IF arg.has_old THEN SelectSeq(arg.old, LAMBDA e : e \in CloneCap)
                 ELSE <<>>
        /\ \A i \in 1..Len(CallsOf("clone")) : CallsOf("clone")[i][3] = "screen,self"

C25_Witness ==
    /\ op = "reset"
    /\ arg.has_old
    /\ arg.old = <<"c", "a">>
    /\ effects = <<"a", "b">>
    /\ Len(CallsOf("clone")) = 2
    /\ Len(CallsOf("reset")) = 2

(***************************************************************************)
(* C26: in move_round_to(points, steps) with steps >= the number of        *)
(* segments, the last sub-step of every segment is that segment's end      *)
(* waypoint exactly, so the last step appended and last_recorded are the   *)
(* final waypoint supplied.                                                *)
(***************************************************************************)
C26_SegmentsEndOnWaypoints ==
    [][(/\ path_op' = "move_round_to"
        /\ path_result'.exc = "none"
        /\ Len(path_arg'.points) >= 1
        /\ path_arg'.n >= Len(path_arg'.points)) =>
          LET k == Len(path_arg'.points)
              steps_per_spline == path_arg'.n \div k
          IN  /\ \A j \in 1..k :
                     steps'[Len(steps) + j * steps_per_spline] = path_arg'.points[j]
              /\ steps'[Len(steps')] = path_arg'.points[k]
              /\ <<rec_x', rec_y'>> = path_arg'.points[k]
      ]_vars

C26_Witness ==
    /\ path_op = "move_round_to"
    /\ path_arg.points = <<<<MaxCoord, 0>>, <<0, MaxCoord>>>>
    /\ path_arg.n = 5
    /\ Len(steps) = 4
    /\ steps[2] = <<MaxCoord, 0>>
    /\ steps[4] = <<0, MaxCoord>>
    /\ <<rec_x, rec_y>> = <<0, MaxCoord>>

(***************************************************************************)
(* C27: move_round_to leaves the waypoint list the caller handed over as   *)
(* it was: after the call the list has the same length and elements.       *)
(***************************************************************************)
C27_CallerPointsUnchanged ==
    path_op = "move_round_to" => path_arg.points_after = path_arg.points

BuilderOps == {"wait", "jump_to", "move_straight_to", "move_round_to"}

(***************************************************************************)
(* C28: the recorded steps are append-only.  Every builder operation       *)
(* (wait, jump_to, move_straight_to, move_round_to), also one made after   *)
(* playback has begun, keeps the steps recorded so far as a prefix of the  *)
(* new steps and leaves the cursor where it was; next_pos, is_finished and *)
(* reset leave the steps as they are.                                      *)
(***************************************************************************)
C28_StepsAppendOnly ==
    [][/\ path_op' \in BuilderOps => (IsPrefix(steps, steps') /\ index' = index)
       /\ path_op' \in {"next_pos", "is_finished", "reset"} => steps' = steps
      ]_vars

C28_Witness ==
    /\ path_op = "move_straight_to"
    /\ path_arg.n = 1
    /\ modified
    /\ index = 1
    /\ Len(steps) = 2
    /\ steps[1] # steps[2]

(***************************************************************************)
(* C30: in every reachable state of a Path, whatever builder operations,   *)
(* resets and next_pos calls led to it, 0 <= cursor <= len(steps); so      *)
(* next_pos never finds the cursor beyond the list, which is the only case *)
(* in which it returns steps[-1].                                          *)
(***************************************************************************)
C30_CursorWithinSteps ==
    0 <= index /\ index <= Len(steps)

C30_Witness ==
    /\ path_op = "next_pos"
    /\ path_result.exc = "IndexError"
    /\ modified
    /\ Len(steps) = 2
    /\ index = Len(steps)

\* an Enter or space key, or a mouse event with a button down over the widget
Selects(ev) ==
    \/ ev.type = "KeyboardEvent" /\ ev.key_code \in {10, 13, 32}
    \/ ev.type = "MouseEvent" /\ ev.buttons # 0 /\ ev.over

(***************************************************************************)
(* C29: a picker's process_event returns None for an event exactly when    *)
(* the event is an Enter or space key or a mouse-button event over the     *)
(* widget; exactly then it creates one popup, keeps it as its child and    *)
(* adds it (reset, registered) to the owning scene as the new topmost      *)
(* effect.  For every other event it returns the event as it came and      *)
(* leaves the scene's effect list and its child alone.                     *)
(***************************************************************************)
C29_PickerOpensPopup ==
    [][(op' = "_BasePicker.process_event" /\ picker_event' # NoEvent) =>
          IF Selects(picker_event')
          THEN /\ picker_result' = NoEvent
               /\ picker_child' = Popup
               /\ effects' = Append(effects, Popup)
               /\ calls' = <<<<"reset", Popup, None, None>>,
                             <<"register_scene", Popup, "self", None>>>>
          ELSE /\ picker_result' = picker_event'
               /\ picker_child' = picker_child
               /\ effects' = effects
               /\ calls' = <<>>
      ]_vars

C29_Witness ==
    /\ op = "_BasePicker.process_event"
    /\ picker_event = [type |-> "MouseEvent", buttons |-> 1, over |-> TRUE]
    /\ picker_result = NoEvent
    /\ Len(effects) = 3
    /\ effects[3] = Popup
    /\ effects[2] # Popup

(***************************************************************************)
(* C31: a next_pos() call made while is_finished() is false succeeds and   *)
(* returns steps[cursor]; so a driver that calls next_pos() only while     *)
(* is_finished() is false gets, since the last reset(), the recorded steps *)
(* in order, each once, without an error, and has got them all when        *)
(* is_finished() turns true.                                               *)
(***************************************************************************)
C31_DriverGetsEveryStep ==
    /\ Len(played) <= Len(steps)
    /\ \A i \in 1..Len(played) : played[i] = Ok(steps[i])
    /\ index = Len(played)
    /\ is_finished(steps, index) => Len(played) = Len(steps)
    /\ path_result.exc = "none"

C31_Witness ==
    /\ path_op = "next_pos"
    /\ replays
    /\ Len(steps) = 2
    /\ steps[1] # steps[2]
    /\ played = <<Ok(steps[1]), Ok(steps[2])>>
    /\ is_finished(steps, index)

(***************************************************************************)
(* C32: an effect that a handler adds to the Scene while process_event is  *)
(* dispatching an event (one that was not registered when the dispatch     *)
(* began) does not receive that event.  (It is appended, so the next       *)
(* dispatch offers it the event first.)                                    *)
(***************************************************************************)
C32_AddedEffectWaits ==
    op = "process_event" =>
        \A e \in Effects : ~Registered(e, snapshot) => Count(e, DeliveredTo) = 0

\* last_recorded is the last recorded step, or (0, 0) when there is none
LastRecordedIsLastStep ==
    <<rec_x, rec_y>> = IF steps = <<>> THEN <<0, 0>> ELSE steps[Len(steps)]

(***************************************************************************)
(* C33: after any sequence of builder operations (and playback calls)      *)
(* last_recorded equals the last element of steps, or (0, 0) when steps is *)
(* empty; and the steps and last_recorded change only together, in a       *)
(* builder operation that appends steps (through _add_step).               *)
(***************************************************************************)
C33_LastRecordedTracksSteps ==
    [][/\ LastRecordedIsLastStep
       /\ LastRecordedIsLastStep'
       /\ (steps' # steps \/ <<rec_x', rec_y'>> # <<rec_x, rec_y>>) =>
              /\ path_op' \in BuilderOps
              /\ IsPrefix(steps, steps')
              /\ Len(steps') > Len(steps)
      ]_vars

C33_Witness ==
    /\ path_op = "move_round_to"
    /\ path_result.exc = "none"
    /\ Len(steps) = 2
    /\ steps[1] # steps[2]
    /\ <<rec_x, rec_y>> = steps[2]
    /\ index = 0

====
